---------------------------- MODULE Spec2Model ----------------------------
(***************************************************************************)
(* A model of the Redis-backed rate limiter of src/src/rate-limiter.ts:    *)
(* the two Lua scripts (LUA_CHECK_SCRIPT, LUA_UPDATE_SCRIPT), the hash     *)
(* they read and write, and the two methods of RateLimiter that run them.  *)
(*                                                                         *)
(* Numbers.  A Lua number is a double.  The model computes with exact      *)
(* rationals [k |-> "fin", n, d] (n/d in lowest terms, d > 0) and with the *)
(* three non-finite doubles a division by zero produces ("inf", "ninf",    *)
(* "nan").  Every finite value of the model is far below 2^53, so sums,    *)
(* differences, products and comparisons are those of the doubles; a       *)
(* quotient is exact here where a double rounds in its last bit.           *)
(*                                                                         *)
(* Conversions.  The arguments travel as decimal strings (toString on the  *)
(* JavaScript side, tonumber in Lua), the hash fields are stored as        *)
(* decimal strings, and the numbers a script returns reach the client as   *)
(* Redis integer replies.  A string is a sequence of one-character         *)
(* strings.                                                                *)
(***************************************************************************)
EXTENDS Integers, Sequences, FiniteSets, TLC

VARIABLES
    redis,      \* the store: key -> hash of the four fields, or NoHash
    call,       \* the call that completed last, with its arguments
    result,     \* what that call returned to its caller
    cast,       \* how the server's build casts a non-finite double to an integer
    inflight,   \* SpecBurst: the evals sent to the store and not yet run
    burst,      \* SpecBurst: the burst of concurrent checks under way
    pending     \* SpecFail: the call awaiting the promise of its EVAL

vars == <<redis, call, result, cast, inflight, burst, pending>>

-----------------------------------------------------------------------------
(* Plans and their limits.                                                 *)

Plans == {"STANDARD", "ADVANCED", "PLUS", "ENTERPRISE"}

PLAN_LIMITS ==
    [plan \in Plans |->
        CASE plan = "STANDARD"   -> [maximumAvailable |-> 1000,  restoreRate |-> 100]
          [] plan = "ADVANCED"   -> [maximumAvailable |-> 2000,  restoreRate |-> 200]
          [] plan = "PLUS"       -> [maximumAvailable |-> 5000,  restoreRate |-> 1000]
          [] plan = "ENTERPRISE" -> [maximumAvailable |-> 10000, restoreRate |-> 2000]]

-----------------------------------------------------------------------------
(* The inputs the callers draw from.                                       *)

Stores == {"s1", "s2"}

Status(max, current, rate) ==
    [maximumAvailable |-> max, currentlyAvailable |-> current, restoreRate |-> rate]

\* throttle statuses a caller reports for the first tenant: the ones of the
\* tests, one above every plan, one that restores in a fraction of a
\* millisecond, and the ones with a ceiling, a rate or a budget that is zero
\* or negative
Statuses ==
    {Status(1000, 0, 100), Status(1000, 300, 100), Status(1000, 1000, 100),
     Status(500, 250, 50), Status(20000, 20000, 5000), Status(1, 0, 5000),
     Status(0, 0, 100), Status(1000, 0, 0), Status(-1, 0, 100),
     Status(1000, -1, 100)}

\* timestamps (ms) of the calls, in any order
Times == {0, 5000, 10000}

\* the cost of the request a check is made for.  checkRateLimit(storeId, plan,
\* now) has no parameter for it: the caller knows it, the limiter does not.
Costs == {0, 20, 600}

\* the second tenant is driven with a few inputs only
StatusesOf(storeId) == IF storeId = "s1" THEN Statuses ELSE {Status(300, 200, 15)}

PlansOf(storeId) ==
    IF storeId = "s1" THEN {"STANDARD", "PLUS", "ENTERPRISE"} ELSE {"ADVANCED"}

TimesOf(storeId) == IF storeId = "s1" THEN Times ELSE {0}

\* (a caller may also come with a request of negative cost)
CostsOf(storeId) == IF storeId = "s1" THEN Costs \cup {-5} ELSE {50}

NoStatus == Status(0, 0, 0)

NoCall ==
    [op |-> "none", storeId |-> "s1", plan |-> "STANDARD", now |-> 0, cost |-> 0,
     throttleStatus |-> NoStatus]

-----------------------------------------------------------------------------
(* Lua numbers.                                                            *)

Abs(x) == IF x < 0 THEN -x ELSE x

RECURSIVE GCD(_, _)
GCD(a, b) == IF b = 0 THEN a ELSE GCD(b, a % b)

\* n/d in lowest terms with a positive denominator (d # 0)
Fin(n, d) ==
    LET g == GCD(Abs(n), Abs(d))
        s == IF d < 0 THEN -1 ELSE 1
    IN  [k |-> "fin", n |-> s * (n \div g), d |-> s * (d \div g)]

LNum(i) == [k |-> "fin", n |-> i, d |-> 1]
PosInf == [k |-> "inf", n |-> 0, d |-> 1]
NegInf == [k |-> "ninf", n |-> 0, d |-> 1]
NaN == [k |-> "nan", n |-> 0, d |-> 1]

IsFinite(x) == x.k = "fin"

\* the arithmetic of the scripts; +, - and the comparisons only ever meet
\* finite operands there
LuaAdd(a, b) == Fin(a.n * b.d + b.n * a.d, a.d * b.d)
LuaSub(a, b) == Fin(a.n * b.d - b.n * a.d, a.d * b.d)
LuaLe(a, b) == a.n * b.d <= b.n * a.d
LuaLt(a, b) == a.n * b.d < b.n * a.d

\* IEEE-754 multiplication by a finite positive factor or of two finite numbers
LuaMul(a, b) ==
    IF IsFinite(a) /\ IsFinite(b) THEN Fin(a.n * b.n, a.d * b.d)
    ELSE IF IsFinite(a) THEN b ELSE a

\* IEEE-754 division of finite numbers: x/0 is an infinity, 0/0 is NaN
LuaDiv(a, b) ==
    IF b.n # 0 THEN Fin(a.n * b.d, a.d * b.n)
    ELSE IF a.n > 0 THEN PosInf
    ELSE IF a.n < 0 THEN NegInf
    ELSE NaN

\* math.min and math.max of two numbers
LuaMathMin(a, b) == IF LuaLe(a, b) THEN a ELSE b
LuaMathMax(a, b) == IF LuaLe(b, a) THEN a ELSE b

-----------------------------------------------------------------------------
(* Decimal strings.                                                        *)

DigitChar == <<"0", "1", "2", "3", "4", "5", "6", "7", "8", "9">>

RECURSIVE NatDigits(_)
NatDigits(n) ==
    IF n < 10 THEN <<DigitChar[n + 1]>>
    ELSE Append(NatDigits(n \div 10), DigitChar[(n % 10) + 1])

\* the integers the model converts: the arguments of the calls and the plan
\* limits (what a script stores is one of its arguments)
Numerals ==
    Times \cup {0}
      \cup UNION {{PLAN_LIMITS[plan].maximumAvailable, PLAN_LIMITS[plan].restoreRate} :
                    plan \in Plans}
      \cup UNION {{st.maximumAvailable, st.currentlyAvailable, st.restoreRate} :
                    st \in UNION {StatusesOf(storeId) : storeId \in Stores}}

\* the decimal digits of each, computed once
Decimal == [i \in Numerals |-> IF i < 0 THEN <<"-">> \o NatDigits(-i) ELSE NatDigits(i)]

\* Number.prototype.toString of an integer
toString(i) == Decimal[i]

DigitValue(c) == CHOOSE v \in 0..9 : DigitChar[v + 1] = c

RECURSIVE ParseNat(_, _)
ParseNat(s, acc) ==
    IF s = << >> THEN acc ELSE ParseNat(Tail(s), 10 * acc + DigitValue(Head(s)))

\* the value of each decimal string the model parses, computed once
Parsed ==
    [s \in {Decimal[i] : i \in Numerals} |->
        IF Head(s) = "-" THEN -ParseNat(Tail(s), 0) ELSE ParseNat(s, 0)]

\* Lua's tonumber of a decimal string
tonumber(s) == LNum(Parsed[s])

\* a Lua number passed to redis.call becomes a string; the scripts only store
\* whole numbers (minima of whole arguments), written with their digits
LuaArg(x) == toString(x.n)

-----------------------------------------------------------------------------
(* The store.  A key holds a hash of four fields, each a decimal string.   *)

\* (mutant) one key for every tenant
KeyShared(storeId) == <<"shopify:rateLimit:", "">>

\* `shopify:rateLimit:${storeId}`
Key(storeId) == <<"shopify:rateLimit:", storeId>>

Keys == {Key(storeId) : storeId \in Stores}

NoHash ==
    [exists |-> FALSE, maximumAvailable |-> << >>, currentlyAvailable |-> << >>,
     restoreRate |-> << >>, lastUpdated |-> << >>]

\* HMSET key maximumAvailable .. lastUpdated ..: all four fields are set
HMSET(maximumAvailable, currentlyAvailable, restoreRate, lastUpdated) ==
    [exists |-> TRUE,
     maximumAvailable |-> LuaArg(maximumAvailable),
     currentlyAvailable |-> LuaArg(currentlyAvailable),
     restoreRate |-> LuaArg(restoreRate),
     lastUpdated |-> LuaArg(lastUpdated)]

-----------------------------------------------------------------------------
(* LUA_CHECK_SCRIPT.                                                       *)

\* (mutant) no record: an empty budget is reported
CheckMissingEmpty(planMax) == <<LNum(1), LNum(0), planMax, LNum(0), LNum(0)>>

\* no record: {1, planMax, planMax, 0, 0}
CheckMissing(planMax) == <<LNum(1), planMax, planMax, LNum(0), LNum(0)>>

CheckEffectiveMax(storedMax, planMax) == LuaMathMin(storedMax, planMax)

CheckEffectiveRate(storedRate, planRate) == LuaMathMin(storedRate, planRate)

\* (mutant) the elapsed time is not clamped at zero
ElapsedSigned(currentTimestamp, lastUpdated) == LuaSub(currentTimestamp, lastUpdated)

Elapsed(currentTimestamp, lastUpdated) ==
    LuaMathMax(LuaSub(currentTimestamp, lastUpdated), LNum(0))

Restored(elapsed, effectiveRate) ==
    LuaDiv(LuaMul(elapsed, effectiveRate), LNum(1000))

NewAvailable(storedCurrent, restored, effectiveMax) ==
    LuaMathMin(LuaAdd(storedCurrent, restored), effectiveMax)

RestoreTimeMs(effectiveMax, newAvailable, effectiveRate) ==
    LET deficit == LuaSub(effectiveMax, newAvailable)
    IN  LuaMul(LuaDiv(deficit, effectiveRate), LNum(1000))

\* the two return statements: the request is allowed when newAvailable > 0
CheckDecision(newAvailable, effectiveMax, restoreTimeMs) ==
    IF LuaLt(LNum(0), newAvailable)
    THEN <<LNum(1), newAvailable, effectiveMax, LNum(0), restoreTimeMs>>
    ELSE <<LNum(0), LNum(0), effectiveMax, restoreTimeMs, restoreTimeMs>>

\* (mutant) the check stamps the record with its timestamp
CheckStoredStamped(hash, newAvailable, currentTimestamp) ==
    [hash EXCEPT !.lastUpdated = LuaArg(currentTimestamp)]

\* (mutant) the check takes the budget it found out of the record
CheckStoredDrained(hash, newAvailable, currentTimestamp) ==
    [hash EXCEPT !.currentlyAvailable = toString(0)]

\* what the script leaves under the key: it calls EXISTS and HMGET only
CheckStored(hash, newAvailable, currentTimestamp) == hash

\* the script on the hash under KEYS[1]: the table it returns and the hash
\* it leaves
LUA_CHECK_SCRIPT(hash, ARGV) ==
    LET currentTimestamp == tonumber(ARGV[1])
        planMax == tonumber(ARGV[2])
        planRate == tonumber(ARGV[3])
    IN  IF ~hash.exists
        THEN [reply |-> CheckMissing(planMax), hash |-> hash]
        ELSE LET storedMax == tonumber(hash.maximumAvailable)
                 storedCurrent == tonumber(hash.currentlyAvailable)
                 storedRate == tonumber(hash.restoreRate)
                 lastUpdated == tonumber(hash.lastUpdated)
                 effectiveMax == CheckEffectiveMax(storedMax, planMax)
                 effectiveRate == CheckEffectiveRate(storedRate, planRate)
                 elapsed == Elapsed(currentTimestamp, lastUpdated)
                 restored == Restored(elapsed, effectiveRate)
                 newAvailable == NewAvailable(storedCurrent, restored, effectiveMax)
                 restoreTimeMs == RestoreTimeMs(effectiveMax, newAvailable, effectiveRate)
             IN  [reply |-> CheckDecision(newAvailable, effectiveMax, restoreTimeMs),
                  hash |-> CheckStored(hash, newAvailable, currentTimestamp)]

-----------------------------------------------------------------------------
(* LUA_UPDATE_SCRIPT.                                                      *)

\* (mutant) the reported ceiling is stored as it comes
UpdateEffectiveMaxAsReported(throttleMax, planMax) == throttleMax

UpdateEffectiveMax(throttleMax, planMax) == LuaMathMin(throttleMax, planMax)

UpdateEffectiveRate(throttleRate, planRate) == LuaMathMin(throttleRate, planRate)

\* (mutant) the reported budget is stored as it comes
UpdateCurrentAsReported(throttleCurrent, effectiveMax) == throttleCurrent

UpdateCurrent(throttleCurrent, effectiveMax) == LuaMathMin(throttleCurrent, effectiveMax)

\* the hash the script leaves under KEYS[1]
LUA_UPDATE_SCRIPT(hash, ARGV) ==
    LET currentTimestamp == tonumber(ARGV[1])
        throttleMax == tonumber(ARGV[2])
        throttleRate == tonumber(ARGV[3])
        planMax == tonumber(ARGV[4])
        planRate == tonumber(ARGV[5])
        throttleCurrent == tonumber(ARGV[6])
        effectiveMax == UpdateEffectiveMax(throttleMax, planMax)
        effectiveRate == UpdateEffectiveRate(throttleRate, planRate)
    IN  HMSET(effectiveMax, UpdateCurrent(throttleCurrent, effectiveMax),
              effectiveRate, currentTimestamp)

-----------------------------------------------------------------------------
(* From the script's table to the caller's RateLimitResult.                *)

\* Redis turns each Lua number of the returned table into an integer reply
\* with a C cast to long long: a finite number loses its fraction.  The cast
\* of an infinity or a NaN is undefined in C; what it yields is fixed by the
\* server's build, and the two outcomes modelled are those of the x86-64 and
\* of the AArch64 conversion instruction.
Casts == {"x86_64", "aarch64"}

\* stand-ins for 2^63 - 1 and -2^63, beyond every finite value of the model
LLONG_MAX == 2^30
LLONG_MIN == -(2^30)

RedisInteger(x, build) ==
    CASE x.k = "fin"  -> IF x.n >= 0 THEN x.n \div x.d ELSE -((-x.n) \div x.d)
      [] x.k = "inf"  -> IF build = "x86_64" THEN LLONG_MIN ELSE LLONG_MAX
      [] x.k = "ninf" -> LLONG_MIN
      [] x.k = "nan"  -> IF build = "x86_64" THEN LLONG_MIN ELSE 0

\* the reply of EVAL: the table as the client receives it
EvalReply(table, build) == [i \in 1..5 |-> RedisInteger(table[i], build)]


\* Math.ceil of a finite number
MathCeil(x) == IF x.n >= 0 THEN (x.n + x.d - 1) \div x.d ELSE -((-x.n) \div x.d)

\* an optional number is the empty set (undefined) or a singleton
Undefined == {}

RetryAfter(r) == IF r > 0 THEN {MathCeil(LNum(r))} ELSE Undefined

\* the object checkRateLimit returns
RateLimitResult(reply) ==
    [allowed |-> reply[1] = 1,
     remainingPoints |-> reply[2],
     maxCapacity |-> reply[3],
     retryAfter |-> RetryAfter(reply[4]),
     restoreTimeMs |-> MathCeil(LNum(reply[5]))]

NoResult ==
    [allowed |-> FALSE, remainingPoints |-> 0, maxCapacity |-> 0,
     retryAfter |-> Undefined, restoreTimeMs |-> 0]

\* the arguments checkRateLimit passes to EVAL
CheckArgs(plan, now) ==
    <<toString(now), toString(PLAN_LIMITS[plan].maximumAvailable),
      toString(PLAN_LIMITS[plan].restoreRate)>>

\* the arguments updateThrottleStatus passes to EVAL
UpdateArgs(throttleStatus, plan, now) ==
    <<toString(now), toString(throttleStatus.maximumAvailable),
      toString(throttleStatus.restoreRate),
      toString(PLAN_LIMITS[plan].maximumAvailable),
      toString(PLAN_LIMITS[plan].restoreRate),
      toString(throttleStatus.currentlyAvailable)>>

-----------------------------------------------------------------------------
(* The state after construction: an empty store, no call made.             *)

NoBurst ==
    [open |-> FALSE, plan |-> "STANDARD", now |-> 0, before |-> LNum(0),
     sent |-> 0, largest |-> 0, granted |-> 0]

\* no call is awaiting the store
NoPending ==
    [stage |-> "idle", call |-> NoCall, evals |-> 0, ran |-> FALSE,
     store |-> [key \in Keys |-> NoHash],
     reply |-> <<LNum(0), LNum(0), LNum(0), LNum(0), LNum(0)>>]

Init ==
    /\ redis = [key \in Keys |-> NoHash]
    /\ call = NoCall
    /\ result = NoResult
    /\ cast \in Casts
    /\ inflight = {}
    /\ burst = NoBurst
    /\ pending = NoPending

-----------------------------------------------------------------------------
(* The two methods.  Each makes one EVAL, which the store runs as one      *)
(* indivisible step; the method keeps no state of its own, so the step of  *)
(* the store is the only place where two calls meet.                       *)

\* checkRateLimit(storeId, plan, now), made for a request of the given cost
Checked(storeId, plan, now, cost) ==
    LET key == Key(storeId)
        ran == LUA_CHECK_SCRIPT(redis[key], CheckArgs(plan, now))
    IN  /\ redis' = [redis EXCEPT ![key] = ran.hash]
        /\ result' = RateLimitResult(EvalReply(ran.reply, cast))
        /\ call' = [op |-> "check", storeId |-> storeId, plan |-> plan, now |-> now,
                    cost |-> cost, throttleStatus |-> NoStatus]

\* updateThrottleStatus(storeId, throttleStatus, plan, now)
Synced(storeId, throttleStatus, plan, now) ==
    LET key == Key(storeId)
    IN  /\ redis' = [redis EXCEPT
                       ![key] = LUA_UPDATE_SCRIPT(redis[key],
                                                  UpdateArgs(throttleStatus, plan, now))]
        /\ result' = NoResult
        /\ call' = [op |-> "sync", storeId |-> storeId, plan |-> plan, now |-> now,
                    cost |-> 0, throttleStatus |-> throttleStatus]

checkRateLimit ==
    \E storeId \in Stores : \E plan \in PlansOf(storeId) :
      \E now \in TimesOf(storeId) : \E cost \in CostsOf(storeId) :
        /\ Checked(storeId, plan, now, cost)
        /\ UNCHANGED <<cast, inflight, burst, pending>>

updateThrottleStatus ==
    \E storeId \in Stores : \E throttleStatus \in StatusesOf(storeId) :
      \E plan \in PlansOf(storeId) : \E now \in TimesOf(storeId) :
        /\ Synced(storeId, throttleStatus, plan, now)
        /\ UNCHANGED <<cast, inflight, burst, pending>>

Next == checkRateLimit \/ updateThrottleStatus

Spec == Init /\ [][Next]_vars

-----------------------------------------------------------------------------
(* What the claims speak of.                                               *)

\* the record under a key, as numbers
Record(hash) ==
    [maximumAvailable |-> Parsed[hash.maximumAvailable],
     currentlyAvailable |-> Parsed[hash.currentlyAvailable],
     restoreRate |-> Parsed[hash.restoreRate],
     lastUpdated |-> Parsed[hash.lastUpdated]]

Min(a, b) == IF a <= b THEN a ELSE b

\* the ceiling and the rate in force for a record under a plan
EffectiveMaxOf(hash, plan) ==
    Min(Record(hash).maximumAvailable, PLAN_LIMITS[plan].maximumAvailable)

EffectiveRateOf(hash, plan) ==
    Min(Record(hash).restoreRate, PLAN_LIMITS[plan].restoreRate)

\* the budget of a record at a time, restored and clamped:
\* min(current + elapsed * rate / 1000, ceiling), as a fraction
AvailableAt(hash, plan, now) ==
    LET r == Record(hash)
        elapsed == IF now > r.lastUpdated THEN now - r.lastUpdated ELSE 0
        grown == Fin(r.currentlyAvailable * 1000 + elapsed * EffectiveRateOf(hash, plan), 1000)
    IN  LuaMathMin(grown, LNum(EffectiveMaxOf(hash, plan)))

\* a record the specification accepts: a positive ceiling and rate, and a
\* budget between zero and the ceiling
ValidRecord(hash) ==
    /\ hash.exists
    /\ Record(hash).maximumAvailable > 0
    /\ Record(hash).restoreRate > 0
    /\ 0 <= Record(hash).currentlyAvailable
    /\ Record(hash).currentlyAvailable <= Record(hash).maximumAvailable

\* the step just taken is a check of a tenant that had a record
CheckOfRecord == call'.op = "check" /\ redis[Key(call'.storeId)].exists

\* the step just taken is a check of a tenant that had a valid record
CheckOfValidRecord == call'.op = "check" /\ ValidRecord(redis[Key(call'.storeId)])

\* the step just taken is a check of a tenant that had none
CheckOfNothing == call'.op = "check" /\ ~redis[Key(call'.storeId)].exists

-----------------------------------------------------------------------------
(* A burst of concurrent checks of one tenant.  A caller's checkRateLimit  *)
(* sends its EVAL and awaits the reply; the store runs the scripts it has  *)
(* received one at a time, in any order.  The burst follows a sync, all    *)
(* its checks carry one plan and one timestamp, and no sync comes between. *)

MaxBurst == 3

BurstOpen ==
    /\ ~burst.open
    /\ \E throttleStatus \in Statuses : \E plan \in PlansOf("s1") :
         \E now \in Times : \E at \in {t \in Times : t >= now} :
           /\ Synced("s1", throttleStatus, plan, now)
           /\ burst' = [open |-> TRUE, plan |-> plan, now |-> at,
                        before |-> AvailableAt(redis'[Key("s1")], plan, at),
                        sent |-> 0, largest |-> 0, granted |-> 0]
    /\ UNCHANGED <<cast, inflight, pending>>

\* a caller sends the EVAL of a check, made for a request of some cost
BurstSend ==
    /\ burst.open
    /\ burst.sent < MaxBurst
    /\ \E cost \in Costs :
         /\ inflight' = inflight \cup {[id |-> burst.sent + 1, cost |-> cost]}
         /\ burst' = [burst EXCEPT !.sent = @ + 1,
                                   !.largest = IF cost > @ THEN cost ELSE @]
    /\ UNCHANGED <<redis, call, result, cast, pending>>

\* the store runs one of the scripts it has received; its caller is answered
BurstRun ==
    \E eval \in inflight :
      /\ Checked("s1", burst.plan, burst.now, eval.cost)
      /\ inflight' = inflight \ {eval}
      /\ burst' = [burst EXCEPT
                     !.granted = @ + (IF result'.allowed THEN eval.cost ELSE 0)]
      /\ UNCHANGED <<cast, pending>>

NextBurst == BurstOpen \/ BurstSend \/ BurstRun

SpecBurst == Init /\ [][NextBurst]_vars

-----------------------------------------------------------------------------
(* C1: in every reachable state every stored record has                    *)
(* 0 <= currentlyAvailable <= maximumAvailable.                            *)
C1_BudgetWithinCeiling ==
    \A key \in Keys :
        redis[key].exists =>
            /\ 0 <= Record(redis[key]).currentlyAvailable
            /\ Record(redis[key]).currentlyAvailable <= Record(redis[key]).maximumAvailable

(* C2: an allowed check of an existing record stores                       *)
(* currentlyAvailable = available - cost and lastUpdated = now, and        *)
(* returns remainingPoints = available - cost and maxCapacity =            *)
(* effectiveMax.  Stated of the records the specification accepts.         *)
C2_AllowedCheckDeducts ==
    [][(CheckOfValidRecord /\ result'.allowed) =>
          LET key == Key(call'.storeId)
              left == LuaSub(AvailableAt(redis[key], call'.plan, call'.now),
                             LNum(call'.cost))
          IN  /\ redis'[key].exists
              /\ LNum(Record(redis'[key]).currentlyAvailable) = left
              /\ Record(redis'[key]).lastUpdated = call'.now
              /\ LNum(result'.remainingPoints) = left
              /\ result'.maxCapacity = EffectiveMaxOf(redis[key], call'.plan)]_vars

(* C3: a check of an existing record is allowed exactly when the restored  *)
(* budget covers the cost of the request: available >= cost.  Stated of    *)
(* the records the specification accepts.                                  *)
C3_AllowedIffCovered ==
    [][CheckOfValidRecord =>
          (result'.allowed <=>
              LuaLe(LNum(call'.cost),
                    AvailableAt(redis[Key(call'.storeId)], call'.plan, call'.now)))]_vars


(* C4: in a burst of concurrent checks of one tenant at one timestamp,     *)
(* with no sync in between, the costs of the checks that are allowed add   *)
(* up to no more than the budget the record had before the burst, in every *)
(* order the store runs them.  Stated of the records the specification     *)
(* accepts and of bursts none of whose requests costs by itself more than  *)
(* that budget.                                                            *)
C4_BurstWithinBudget ==
    ( /\ burst.open
      /\ ValidRecord(redis[Key("s1")])
      /\ LuaLe(LNum(burst.largest), burst.before) )
    => LuaLe(LNum(burst.granted), burst.before)

(* C5: a check of a tenant with no record is allowed, reports the ceiling  *)
(* of the plan as remainingPoints and maxCapacity, no retryAfter and       *)
(* restoreTimeMs = 0, and writes nothing: the tenant still has no record.  *)
C5_MissingRecordDefault ==
    [][CheckOfNothing =>
          /\ result' = [allowed |-> TRUE,
                        remainingPoints |-> PLAN_LIMITS[call'.plan].maximumAvailable,
                        maxCapacity |-> PLAN_LIMITS[call'.plan].maximumAvailable,
                        retryAfter |-> Undefined,
                        restoreTimeMs |-> 0]
          /\ redis' = redis]_vars

\* a check has answered for a tenant that has no record
C5_Witness ==
    /\ call.op = "check"
    /\ ~redis[Key(call.storeId)].exists
    /\ result.allowed
    /\ call.cost > 0
    /\ call.now > 0

(* C6: a denied check changes nothing in the store, so every later check   *)
(* reads the record the denied one read; and a denied check repeated with  *)
(* the same tenant, plan and timestamp returns the same restoreTimeMs.     *)
C6_DeniedCheckIsNoOp ==
    [][/\ (call'.op = "check" /\ ~result'.allowed) => redis' = redis
       /\ ( /\ call.op = "check" /\ ~result.allowed
            /\ call'.op = "check" /\ ~result'.allowed
            /\ call'.storeId = call.storeId
            /\ call'.plan = call.plan
            /\ call'.now = call.now )
          => result'.restoreTimeMs = result.restoreTimeMs]_vars

\* a check of an exhausted record, carrying a timestamp other than the
\* record's, has been denied and told how long the bucket takes to fill
C6_Witness ==
    /\ call.op = "check"
    /\ ~result.allowed
    /\ ValidRecord(redis[Key(call.storeId)])
    /\ call.now # Record(redis[Key(call.storeId)]).lastUpdated
    /\ result.restoreTimeMs > 0

(* C7: a denied check returns allowed = false, remainingPoints = 0,        *)
(* maxCapacity = effectiveMax and retryAfter = restoreTimeMs.              *)
C7_DeniedResult ==
    [][(CheckOfRecord /\ ~result'.allowed) =>
          /\ result'.remainingPoints = 0
          /\ result'.maxCapacity = EffectiveMaxOf(redis[Key(call'.storeId)], call'.plan)
          /\ result'.retryAfter = {result'.restoreTimeMs}]_vars

(* C8: in every check result retryAfter is present exactly when the check  *)
(* is denied, and is then greater than 0.                                  *)
C8_RetryAfterIffDenied ==
    call.op = "check" =>
        /\ result.allowed => result.retryAfter = Undefined
        /\ ~result.allowed =>
              /\ result.retryAfter # Undefined
              /\ \A r \in result.retryAfter : r > 0

(* C9: tier dominance.  What a sync stores as maximumAvailable and         *)
(* restoreRate never exceeds the values of the plan passed to it, and the  *)
(* ceiling and the rate a check works with never exceed the values of the  *)
(* plan passed to the check, whatever the record holds.                    *)
C9_TierDominance ==
    /\ call.op = "sync" =>
          /\ Record(redis[Key(call.storeId)]).maximumAvailable
                <= PLAN_LIMITS[call.plan].maximumAvailable
          /\ Record(redis[Key(call.storeId)]).restoreRate
                <= PLAN_LIMITS[call.plan].restoreRate
    /\ call.op = "check" => result.maxCapacity <= PLAN_LIMITS[call.plan].maximumAvailable
    /\ \A key \in Keys : \A plan \in Plans :
          redis[key].exists =>
              /\ LuaLe(CheckEffectiveMax(tonumber(redis[key].maximumAvailable),
                                         LNum(PLAN_LIMITS[plan].maximumAvailable)),
                       LNum(PLAN_LIMITS[plan].maximumAvailable))
              /\ LuaLe(CheckEffectiveRate(tonumber(redis[key].restoreRate),
                                          LNum(PLAN_LIMITS[plan].restoreRate)),
                       LNum(PLAN_LIMITS[plan].restoreRate))

\* a status above the plan was synced, and a check under a smaller plan has
\* answered with that plan's ceiling
C9_Witness ==
    /\ call.op = "check"
    /\ redis[Key(call.storeId)].exists
    /\ Record(redis[Key(call.storeId)]).maximumAvailable
          > PLAN_LIMITS[call.plan].maximumAvailable
    /\ Record(redis[Key(call.storeId)]).restoreRate > PLAN_LIMITS[call.plan].restoreRate
    /\ result.maxCapacity = PLAN_LIMITS[call.plan].maximumAvailable

(* C10: clamp correctness.  The budget a check computes never exceeds the  *)
(* ceiling in force, so every check result has                             *)
(* 0 <= remainingPoints <= maxCapacity, however much time has elapsed.     *)
C10_RemainingWithinCapacity ==
    call.op = "check" =>
        /\ 0 <= result.remainingPoints
        /\ result.remainingPoints <= result.maxCapacity

-----------------------------------------------------------------------------
\* the budget LUA_CHECK_SCRIPT computes (newAvailable) for a record under a
\* plan at a timestamp
CheckAvailable(hash, plan, now) ==
    LET effectiveMax == CheckEffectiveMax(tonumber(hash.maximumAvailable),
                                          LNum(PLAN_LIMITS[plan].maximumAvailable))
        effectiveRate == CheckEffectiveRate(tonumber(hash.restoreRate),
                                            LNum(PLAN_LIMITS[plan].restoreRate))
        elapsed == Elapsed(LNum(now), tonumber(hash.lastUpdated))
    IN  NewAvailable(tonumber(hash.currentlyAvailable),
                     Restored(elapsed, effectiveRate), effectiveMax)

(* C11: monotonic restoration.  For a stored record with restoreRate > 0   *)
(* and a plan, the budget a check computes does not decrease as the        *)
(* timestamp grows, and is never below min(storedCurrent, effectiveMax),   *)
(* also for a timestamp before lastUpdated; of two checks in a row of one  *)
(* tenant under one plan, the later in time reports no fewer               *)
(* remainingPoints.                                                        *)
C11_MonotonicRestoration ==
    /\ [](\A key \in Keys : \A plan \in Plans :
            (redis[key].exists /\ Record(redis[key]).restoreRate > 0) =>
                LET floor == LuaMathMin(tonumber(redis[key].currentlyAvailable),
                                        LNum(EffectiveMaxOf(redis[key], plan)))
                IN  /\ \A t1 \in Times : \A t2 \in Times :
                          t1 < t2 => LuaLe(CheckAvailable(redis[key], plan, t1),
                                           CheckAvailable(redis[key], plan, t2))
                    /\ \A t \in Times : LuaLe(floor, CheckAvailable(redis[key], plan, t)))
    /\ [][( /\ CheckOfRecord
            /\ Record(redis[Key(call'.storeId)]).restoreRate > 0
            /\ call.op = "check"
            /\ call.storeId = call'.storeId
            /\ call.plan = call'.plan
            /\ call.now <= call'.now )
          => result.remainingPoints <= result'.remainingPoints]_vars

\* a check carrying a timestamp before the record's lastUpdated has reported
\* the stored budget, which is below the ceiling
C11_Witness ==
    /\ call.op = "check"
    /\ redis[Key(call.storeId)].exists
    /\ Record(redis[Key(call.storeId)]).restoreRate > 0
    /\ call.now < Record(redis[Key(call.storeId)]).lastUpdated
    /\ result.allowed
    /\ result.remainingPoints = Record(redis[Key(call.storeId)]).currentlyAvailable
    /\ result.remainingPoints < result.maxCapacity

(* C12: for every check of an existing record, restoreTimeMs is            *)
(* ceil((effectiveMax - available) / effectiveRate * 1000), the smallest   *)
(* whole number of milliseconds that covers the deficit, whatever the cost *)
(* of the request.  Stated of the records the specification accepts.       *)
C12_RestoreTimeIsCeiling ==
    [][CheckOfValidRecord =>
          LET hash == redis[Key(call'.storeId)]
              deficit == LuaSub(LNum(EffectiveMaxOf(hash, call'.plan)),
                                AvailableAt(hash, call'.plan, call'.now))
              ms == LuaDiv(LuaMul(deficit, LNum(1000)),
                           LNum(EffectiveRateOf(hash, call'.plan)))
          IN  result'.restoreTimeMs = MathCeil(ms)]_vars

(* C13: a sync is a full overwrite.  Whatever the record was, afterwards   *)
(* it is exactly maximumAvailable = min(reported max, plan max),           *)
(* currentlyAvailable = min(reported current, that ceiling), restoreRate = *)
(* min(reported rate, plan rate), lastUpdated = now, and no other key      *)
(* changes; a sync repeated with the same arguments leaves the store as it *)
(* is.                                                                     *)
C13_SyncOverwrites ==
    [][call'.op = "sync" =>
          LET key == Key(call'.storeId)
              status == call'.throttleStatus
              max == Min(status.maximumAvailable, PLAN_LIMITS[call'.plan].maximumAvailable)
          IN  /\ redis'[key].exists
              /\ Record(redis'[key]) =
                    [maximumAvailable |-> max,
                     currentlyAvailable |-> Min(status.currentlyAvailable, max),
                     restoreRate |-> Min(status.restoreRate,
                                         PLAN_LIMITS[call'.plan].restoreRate),
                     lastUpdated |-> call'.now]
              /\ DOMAIN redis'[key] =
                    {"exists", "maximumAvailable", "currentlyAvailable", "restoreRate",
                     "lastUpdated"}
              /\ call = call' => redis' = redis]_vars

\* a sync at a later timestamp, reporting a ceiling, a budget and a rate above
\* what its plan grants, has stored a full bucket of the plan's size
C13_Witness ==
    /\ call.op = "sync"
    /\ call.throttleStatus.maximumAvailable > PLAN_LIMITS[call.plan].maximumAvailable
    /\ call.throttleStatus.currentlyAvailable > PLAN_LIMITS[call.plan].maximumAvailable
    /\ call.throttleStatus.restoreRate > PLAN_LIMITS[call.plan].restoreRate
    /\ call.now > 0
    /\ Record(redis[Key(call.storeId)]).currentlyAvailable
          = PLAN_LIMITS[call.plan].maximumAvailable

(* C14: a sync whose reported restoreRate <= 0 or maximumAvailable <= 0    *)
(* is rejected before any write: the store is exactly as it was before the *)
(* call.                                                                   *)
C14_InvalidSyncRejected ==
    [][( /\ call'.op = "sync"
         /\ \/ call'.throttleStatus.restoreRate <= 0
            \/ call'.throttleStatus.maximumAvailable <= 0 )
       => redis' = redis]_vars

(* C15: in every reachable state every stored record has restoreRate > 0   *)
(* and maximumAvailable > 0, and so no check divides by an effective rate  *)
(* of zero.                                                                *)
C15_StoredRecordsPositive ==
    \A key \in Keys :
        redis[key].exists =>
            /\ Record(redis[key]).restoreRate > 0
            /\ Record(redis[key]).maximumAvailable > 0
            /\ \A plan \in Plans : EffectiveRateOf(redis[key], plan) # 0

\* the failure the specification names for a check with a bad argument
InvalidArgument == [error |-> "InvalidArgument"]

(* C16: a check called for a negative cost fails with InvalidArgument      *)
(* before any call to the store, and every record is as it was.            *)
C16_NegativeCostRejected ==
    [][(call'.op = "check" /\ call'.cost < 0) =>
          /\ result' = InvalidArgument
          /\ redis' = redis]_vars

\* the tenants other than the one the step just taken was called for
Others == Stores \ {call'.storeId}

(* C17: tenant independence.  Distinct tenants have distinct keys; a check *)
(* or a sync of one tenant leaves the record of every other tenant as it   *)
(* was, in every interleaving of the calls of the two tenants; and the     *)
(* hash a call reads and writes, the only part of the store its script is  *)
(* given, is the same with the other tenants' records erased, before and   *)
(* after the call.                                                         *)
C17_TenantIndependence ==
    [][call'.op \in {"check", "sync"} =>
          \A other \in Others :
              /\ Key(other) # Key(call'.storeId)
              /\ redis'[Key(other)] = redis[Key(other)]
              /\ [redis EXCEPT ![Key(other)] = NoHash][Key(call'.storeId)]
                    = redis[Key(call'.storeId)]
              /\ [redis' EXCEPT ![Key(other)] = NoHash][Key(call'.storeId)]
                    = redis'[Key(call'.storeId)]]_vars

\* both tenants have a record, the two records differ in every field but
\* the timestamp, and the second tenant has been checked after the first
\* tenant's record was stored
C17_Witness ==
    /\ call.op = "check"
    /\ call.storeId = "s2"
    /\ redis[Key("s1")].exists
    /\ redis[Key("s2")].exists
    /\ Record(redis[Key("s1")]).maximumAvailable # Record(redis[Key("s2")]).maximumAvailable
    /\ Record(redis[Key("s1")]).currentlyAvailable
          # Record(redis[Key("s2")]).currentlyAvailable
    /\ Record(redis[Key("s1")]).restoreRate # Record(redis[Key("s2")]).restoreRate
    /\ result.maxCapacity = Record(redis[Key("s2")]).maximumAvailable

(* C18: a check made for a request of cost zero is always allowed, whatever *)
(* the record (also one with no budget left) and the timestamp.  Stated of  *)
(* tenants with no record or with a record the specification accepts.       *)
C18_ZeroCostAllowed ==
    ( /\ call.op = "check"
      /\ call.cost = 0
      /\ \/ ~redis[Key(call.storeId)].exists
         \/ ValidRecord(redis[Key(call.storeId)]) )
    => result.allowed

(* C19: retryAfter is sufficient.  When a check is denied at time t with   *)
(* retryAfter = r, the next call being a check of the same tenant with the *)
(* same cost and plan at time t + r, that check is allowed.  Stated of the *)
(* records the specification accepts and of costs that are not negative.   *)
C19_RetryAfterSuffices ==
    [][( /\ call.op = "check"
         /\ call.cost >= 0
         /\ ~result.allowed
         /\ ValidRecord(redis[Key(call.storeId)])
         /\ call'.op = "check"
         /\ call'.storeId = call.storeId
         /\ call'.plan = call.plan
         /\ call'.cost = call.cost
         /\ \E r \in result.retryAfter : call'.now = call.now + r )
       => result'.allowed]_vars

(* C20: restoreTimeMs is the time to a full bucket.  When a check at time  *)
(* t returns restoreTimeMs = d and the next call is a check of the same    *)
(* tenant under the same plan at a time >= t + d, that check reports       *)
(* remainingPoints = maxCapacity and restoreTimeMs = 0.  Stated of tenants *)
(* with no record or with a record the specification accepts, of a first   *)
(* check not earlier than the record's lastUpdated, and of costs that are  *)
(* not negative.                                                           *)
C20_RestoreTimeFillsBucket ==
    [][( /\ call.op = "check"
         /\ call.cost >= 0
         /\ \/ ~redis[Key(call.storeId)].exists
            \/ /\ ValidRecord(redis[Key(call.storeId)])
               /\ call.now >= Record(redis[Key(call.storeId)]).lastUpdated
         /\ call'.op = "check"
         /\ call'.cost >= 0
         /\ call'.storeId = call.storeId
         /\ call'.plan = call.plan
         /\ call'.now >= call.now + result.restoreTimeMs )
       => /\ result'.remainingPoints = result'.maxCapacity
          /\ result'.restoreTimeMs = 0]_vars

\* the step just taken is the store running one check of the burst
BurstChecked == inflight' # inflight /\ burst'.sent = burst.sent

C23_BudgetConserved ==
    LET hash == redis[Key("s1")]
        credit == Record(hash).currentlyAvailable * 1000
                    + EffectiveRateOf(hash, burst.plan)
                        * (burst.now - Record(hash).lastUpdated)
    IN  ( /\ burst.open
          /\ ValidRecord(hash)
          /\ burst.largest * 1000 <= credit )
        => burst.granted * 1000 <= credit

(* C24: the lastUpdated of a tenant's record never decreases: no check and *)
(* no sync moves it backwards.                                             *)
C24_LastUpdatedNeverDecreases ==
    [][\A key \in Keys :
          (redis[key].exists /\ redis'[key].exists) =>
              Record(redis'[key]).lastUpdated >= Record(redis[key]).lastUpdated]_vars

(* C24 as amended: a check never changes lastUpdated, also when it carries *)
(* a timestamp older than the stored one; a sync sets lastUpdated to its   *)
(* own timestamp, so the only step that moves lastUpdated backwards is a   *)
(* sync of that tenant carrying an older timestamp, and it moves it to     *)
(* exactly that timestamp.                                                 *)
C24_OnlyOlderSyncMovesBack ==
    [][\A key \in Keys :
          (redis[key].exists /\ redis'[key].exists) =>
              /\ call'.op = "check" =>
                    Record(redis'[key]).lastUpdated = Record(redis[key]).lastUpdated
              /\ Record(redis'[key]).lastUpdated < Record(redis[key]).lastUpdated =>
                    /\ call'.op = "sync"
                    /\ Key(call'.storeId) = key
                    /\ call'.now < Record(redis[key]).lastUpdated
                    /\ Record(redis'[key]).lastUpdated = call'.now]_vars

\* a check carrying a timestamp well before the record's lastUpdated has been
\* denied, and the record still carries the later timestamp
C24_Witness ==
    /\ call.op = "check"
    /\ ~result.allowed
    /\ redis[Key(call.storeId)].exists
    /\ call.now + 5000 < Record(redis[Key(call.storeId)]).lastUpdated

-----------------------------------------------------------------------------
(* Calls over a connection that may fail.  A method builds its key, sends  *)
(* one EVAL and awaits its promise; there is no try/catch and no loop      *)
(* around the await.  The store runs the script it received as one step    *)
(* and replies.  The connection may fail while the EVAL is on its way or   *)
(* while the reply is: the promise is then rejected and the method rejects *)
(* with that error.  One call is followed at a time.                       *)

\* what the caller holds when the method has rejected
BackendError == [error |-> "BackendUnavailable"]

\* the statuses reported in the calls followed here
FailStatusesOf(storeId) ==
    IF storeId = "s1" THEN {Status(1000, 300, 100), Status(500, 250, 50)}
    ELSE StatusesOf(storeId)

\* the EVAL of a call just made: sent once, not yet run; the store as the
\* call found it is remembered
Sent(c) ==
    [stage |-> "sent", call |-> c, evals |-> 1, ran |-> FALSE, store |-> redis,
     reply |-> NoPending.reply]

\* a method is called: it sends its EVAL and awaits
Invoke ==
    /\ pending.stage \in {"idle", "resolved", "rejected"}
    /\ \E storeId \in Stores : \E plan \in PlansOf(storeId) : \E now \in TimesOf(storeId) :
         \/ \E cost \in {c \in CostsOf(storeId) : c > 0} :
              call' = [op |-> "check", storeId |-> storeId, plan |-> plan, now |-> now,
                       cost |-> cost, throttleStatus |-> NoStatus]
         \/ \E throttleStatus \in FailStatusesOf(storeId) :
              call' = [op |-> "sync", storeId |-> storeId, plan |-> plan, now |-> now,
                       cost |-> 0, throttleStatus |-> throttleStatus]
    /\ pending' = Sent(call')
    /\ result' = NoResult
    /\ UNCHANGED <<redis, cast, inflight, burst>>

\* the store runs the script it received, as one step
StoreRuns ==
    /\ pending.stage = "sent"
    /\ LET c == pending.call
           key == Key(c.storeId)
       IN  IF c.op = "check"
           THEN LET ran == LUA_CHECK_SCRIPT(redis[key], CheckArgs(c.plan, c.now))
                IN  /\ redis' = [redis EXCEPT ![key] = ran.hash]
                    /\ pending' = [pending EXCEPT !.stage = "ran", !.ran = TRUE,
                                                  !.reply = ran.reply]
           ELSE /\ redis' = [redis EXCEPT
                               ![key] = LUA_UPDATE_SCRIPT(redis[key],
                                           UpdateArgs(c.throttleStatus, c.plan, c.now))]
                /\ pending' = [pending EXCEPT !.stage = "ran", !.ran = TRUE]
    /\ UNCHANGED <<call, result, cast, inflight, burst>>

\* the reply arrives: the promise is fulfilled and the method returns
Resolve ==
    /\ pending.stage = "ran"
    /\ result' = IF pending.call.op = "check"
                 THEN RateLimitResult(EvalReply(pending.reply, cast))
                 ELSE NoResult
    /\ pending' = [pending EXCEPT !.stage = "resolved"]
    /\ UNCHANGED <<redis, call, cast, inflight, burst>>

\* (mutant) the method catches the rejection and sends its EVAL again
OnRejectResend(p) == [p EXCEPT !.stage = "sent", !.evals = @ + 1]

\* the awaited promise is rejected: nothing catches it, the method rejects
OnReject(p) == [p EXCEPT !.stage = "rejected"]

\* the connection fails before the script has run, or before its reply has
\* arrived
Reject ==
    /\ pending.stage \in {"sent", "ran"}
    /\ pending' = OnReject(pending)
    /\ result' = IF pending'.stage = "rejected" THEN BackendError ELSE result
    /\ UNCHANGED <<redis, call, cast, inflight, burst>>

NextFail == Invoke \/ StoreRuns \/ Resolve \/ Reject

SpecFail == Init /\ [][NextFail]_vars

(* C21: when the store call fails, the check or the sync fails with the    *)
(* backend error after exactly one store attempt, returns no result, and   *)
(* the store is as the call found it.                                      *)
C21_FailedCallLeavesStore ==
    pending.stage = "rejected" =>
        /\ pending.evals = 1
        /\ result = BackendError
        /\ redis = pending.store

(* C21 as amended: no call sends more than one EVAL; when the store call   *)
(* fails, the check or the sync fails with the backend error after exactly *)
(* one attempt and returns no result; the records of the other tenants are *)
(* as before; a failed check leaves the tenant's record as it was; a       *)
(* failed sync leaves it as it was when the store had not run the script,  *)
(* and wholly overwritten (all four fields, as by a sync that succeeds)    *)
(* when the store had run it before the failure: never in part.            *)
C21_FailedCallCommitsWhollyOrNot ==
    /\ pending.evals <= 1
    /\ pending.stage = "rejected" =>
          LET c == pending.call
              key == Key(c.storeId)
              max == Min(c.throttleStatus.maximumAvailable,
                         PLAN_LIMITS[c.plan].maximumAvailable)
          IN  /\ pending.evals = 1
              /\ result = BackendError
              /\ \A other \in Keys \ {key} : redis[other] = pending.store[other]
              /\ (c.op = "check" \/ ~pending.ran) => redis = pending.store
              /\ (c.op = "sync" /\ pending.ran) =>
                    /\ redis[key].exists
                    /\ Record(redis[key]) =
                          [maximumAvailable |-> max,
                           currentlyAvailable |->
                               Min(c.throttleStatus.currentlyAvailable, max),
                           restoreRate |-> Min(c.throttleStatus.restoreRate,
                                               PLAN_LIMITS[c.plan].restoreRate),
                           lastUpdated |-> c.now]

\* a sync has been rejected after the store had run its script, and the
\* tenant's record is no longer the one the call found
C21_Witness ==
    /\ pending.stage = "rejected"
    /\ pending.call.op = "sync"
    /\ pending.ran
    /\ pending.store[Key(pending.call.storeId)].exists
    /\ redis # pending.store
    /\ result = BackendError

=============================================================================
